---- MODULE Spec2Model ----
(***************************************************************************)
(* A model of app.py: the data-cleaning pipeline clean_data and the Flask  *)
(* upload/download shell around it.                                        *)
(*                                                                         *)
(* Spec     runs clean_data stage by stage on one bounded input file.      *)
(* SpecWeb  runs concurrent upload requests against the shared folders.    *)
(*                                                                         *)
(* pandas semantics are those of the 2.x line the program was written      *)
(* for: text columns load with dtype object, and df[col].fillna(...,       *)
(* inplace=True) updates the frame's column.  Floating-point means are     *)
(* modelled as exact rationals.                                            *)
(***************************************************************************)
EXTENDS Integers, Sequences, FiniteSets, TLC

\* ------------------------------------------------------------------ bounds
MaxRows == 3
MaxCols == 2

\* ------------------------------------------------------------------ cells
\* A cell of a DataFrame.  k is the kind of value held: "nan" (NaN / NaT),
\* "str" (a Python str, in s), "num" (the rational n/d), "date" (a
\* Timestamp, n days).
NaN == [k |-> "nan", s |-> "", n |-> 0, d |-> 1]
Str(x) == [k |-> "str", s |-> x, n |-> 0, d |-> 1]
Date(t) == [k |-> "date", s |-> "", n |-> t, d |-> 1]

RECURSIVE GCD(_, _)
GCD(a, b) == IF b = 0 THEN a ELSE GCD(b, a % b)

Num(a, b) ==
    LET g == GCD(IF a < 0 THEN -a ELSE a, b)
    IN  [k |-> "num", s |-> "", n |-> a \div g, d |-> b \div g]

isnull(c) == c.k = "nan"

\* ------------------------------------------------------------------ parsing
\* The strings pandas' parsers treat as missing on load (a subset of the
\* default na_values of read_csv / read_excel).
DefaultNaValues == {"", "N/A", "NA"}

NumberStrings == {"20", "22"}
ParseNumber(x) == IF x = "20" THEN 20 ELSE 22

DateStrings == {"2024-01-05", "2024-01-09"}
ParseDate(x) == IF x = "2024-01-05" THEN 5 ELSE 9

\* ------------------------------------------------------------------ frames
\* A DataFrame, column-major: data[c][r] is the cell of column c in the
\* r-th remaining row; index[r] is that row's label (its position in the
\* file).
EmptyFrame == [columns |-> <<>>, dtypes |-> <<>>, data |-> <<>>, index |-> <<>>]

NCols(df) == Len(df.columns)
NRows(df) == Len(df.index)
Row(df, r) == [c \in 1..NCols(df) |-> df.data[c][r]]

\* pd.read_csv / pd.read_excel: type inference of one column of a file.
LoadColumn(raw) ==
    LET present == {i \in 1..Len(raw) : raw[i] \notin DefaultNaValues}
        numeric == \A i \in present : raw[i] \in NumberStrings
        cells   == [i \in 1..Len(raw) |->
                       IF raw[i] \in DefaultNaValues THEN NaN
                       ELSE IF numeric THEN Num(ParseNumber(raw[i]), 1)
                       ELSE Str(raw[i])]
        dtype   == IF ~numeric THEN "object"
                   ELSE IF present = 1..Len(raw) THEN "int64"
                   ELSE "float64"
    IN  [dtype |-> dtype, cells |-> cells]

read_file(f) ==
    [columns |-> f.columns,
     dtypes  |-> [c \in 1..Len(f.columns) |-> LoadColumn(f.data[c]).dtype],
     data    |-> [c \in 1..Len(f.columns) |-> LoadColumn(f.data[c]).cells],
     index   |-> [r \in 1..f.nrows |-> r]]

\* ------------------------------------------------------------------ headers
header_mapping(h) ==
    CASE h = "Sample_ID"    -> "Sample ID"
      [] h = "Test_Date"    -> "Test Date"
      [] h = "Temp (°C)"    -> "Temperature (°C)"
      [] h = "Result_Value" -> "Result Value"
      [] OTHER              -> h

rename(df) ==
    [df EXCEPT !.columns = [c \in 1..NCols(df) |-> header_mapping(df.columns[c])]]

\* '"date" in col.lower()' for the headers of the model.
HasDate(h) == h \in {"Test_Date", "Test Date"}

\* ------------------------------------------------------------------ coercion
\* pd.to_datetime(col, errors="coerce") on one cell.
to_datetime_cell(c) ==
    CASE c.k = "str" /\ c.s \in DateStrings -> Date(ParseDate(c.s))
      [] c.k = "date"                       -> c
      [] c.k = "num"                        -> Date(0)
      [] OTHER                              -> NaN

convert_dates(df) ==
    [df EXCEPT
       !.dtypes = [c \in 1..NCols(df) |->
                     IF HasDate(df.columns[c]) THEN "datetime64[ns]" ELSE df.dtypes[c]],
       !.data   = [c \in 1..NCols(df) |->
                     IF HasDate(df.columns[c])
                     THEN [r \in 1..NRows(df) |-> to_datetime_cell(df.data[c][r])]
                     ELSE df.data[c]]]

Sentinels == {"N/A", "NA", "<0.3"}

\* .replace({...: np.nan}) followed by pd.to_numeric(errors="coerce").
to_numeric_cell(c) ==
    CASE c.k = "num"                                              -> c
      [] c.k = "str" /\ c.s \notin Sentinels /\ c.s \in NumberStrings -> Num(ParseNumber(c.s), 1)
      [] OTHER                                                    -> NaN

NumericDtype(cells) ==
    IF \E r \in 1..Len(cells) : isnull(cells[r]) THEN "float64" ELSE "int64"

convert_numeric(df) ==
    LET conv(c) == [r \in 1..NRows(df) |-> to_numeric_cell(df.data[c][r])]
    IN  [df EXCEPT
           !.dtypes = [c \in 1..NCols(df) |->
                         IF df.dtypes[c] = "object" THEN NumericDtype(conv(c)) ELSE df.dtypes[c]],
           !.data   = [c \in 1..NCols(df) |->
                         IF df.dtypes[c] = "object" THEN conv(c) ELSE df.data[c]]]

\* ------------------------------------------------------------------ imputation
NonNull(cells) == {r \in 1..Len(cells) : ~isnull(cells[r])}

RECURSIVE SumOver(_, _)
SumOver(cells, R) ==
    IF R = {} THEN 0
    ELSE LET r == CHOOSE x \in R : TRUE
         IN  cells[r].n + SumOver(cells, R \ {r})

\* Series.mean(): NaN are skipped; the mean of no values is NaN.  Numeric
\* cells are whole numbers until imputation, so their sum is a sum of the n.
mean(cells) ==
    IF NonNull(cells) = {} THEN NaN
    ELSE Num(SumOver(cells, NonNull(cells)), Cardinality(NonNull(cells)))

Count(cells, v) == Cardinality({r \in 1..Len(cells) : cells[r] = v})

Less(a, b) == a.n * b.d < b.n * a.d

\* Series.mode(): the most frequent non-missing values, sorted ascending.
ModeValues(cells) ==
    LET vals == {cells[r] : r \in NonNull(cells)}
    IN  {v \in vals : \A w \in vals : Count(cells, w) <= Count(cells, v)}

\* mode()[0], defined when ModeValues is not empty.
ModeFirst(cells) ==
    CHOOSE v \in ModeValues(cells) : \A w \in ModeValues(cells) : w = v \/ Less(v, w)

fillna(cells, v) == [r \in 1..Len(cells) |-> IF isnull(cells[r]) THEN v ELSE cells[r]]

IsNumericDtype(t) == t \in {"float64", "int64"}

\* mode()[0] on an empty Series raises (KeyError); nothing else in the loop does.
ImputeRaises(df) ==
    \E c \in 1..NCols(df) : ~IsNumericDtype(df.dtypes[c]) /\ NonNull(df.data[c]) = {}

impute(df) ==
    [df EXCEPT !.data = [c \in 1..NCols(df) |->
        IF IsNumericDtype(df.dtypes[c])
        THEN fillna(df.data[c], mean(df.data[c]))
        ELSE fillna(df.data[c], ModeFirst(df.data[c]))]]

\* ------------------------------------------------------------------ duplicates
\* DataFrame.drop_duplicates(): scan the rows in order, keep a row unless an
\* equal row was seen before (missing cells compare equal to each other).
RECURSIVE KeptRows(_, _, _, _)
KeptRows(df, r, seen, acc) ==
    IF r > NRows(df) THEN acc
    ELSE IF Row(df, r) \in seen THEN KeptRows(df, r + 1, seen, acc)
    ELSE KeptRows(df, r + 1, seen \cup {Row(df, r)}, Append(acc, r))

SelectRows(df, keep) ==
    [df EXCEPT
       !.data  = [c \in 1..NCols(df) |-> [i \in 1..Len(keep) |-> df.data[c][keep[i]]]],
       !.index = [i \in 1..Len(keep) |-> df.index[keep[i]]]]

\* drop_duplicates(keep="last"): a row is dropped when an equal row follows.
RECURSIVE KeptRowsLast(_, _, _)
KeptRowsLast(df, r, acc) ==
    IF r > NRows(df) THEN acc
    ELSE IF \E j \in (r + 1)..NRows(df) : Row(df, j) = Row(df, r)
         THEN KeptRowsLast(df, r + 1, acc)
         ELSE KeptRowsLast(df, r + 1, Append(acc, r))

drop_duplicates_keep_last(df) == SelectRows(df, KeptRowsLast(df, 1, <<>>))

drop_duplicates(df) ==
    LET keep == KeptRows(df, 1, {}, <<>>)
    IN  [df EXCEPT
           !.data  = [c \in 1..NCols(df) |-> [i \in 1..Len(keep) |-> df.data[c][keep[i]]]],
           !.index = [i \in 1..Len(keep) |-> df.index[keep[i]]]]

\* ------------------------------------------------------------------ report
nunique(cells) == Cardinality({cells[r] : r \in NonNull(cells)})
nmissing(cells) == Cardinality({r \in 1..Len(cells) : isnull(cells[r])})

make_metadata(orig, df) ==
    [c \in 1..NCols(df) |->
        [name     |-> df.columns[c],
         original |-> orig[c],
         mapped   |-> header_mapping(orig[c]),
         type     |-> df.dtypes[c],
         missing  |-> nmissing(df.data[c]),
         unique   |-> nunique(df.data[c])]]

\* ------------------------------------------------------------------ inputs
\* The columns a generated file may hold: the header of each and the cell
\* texts drawn for it.
Header == <<"Sample ID", "Test_Date", "Result Value">>
Vocab == << <<"A1", "B2">>,
            <<"2024-01-09", "2024-01-05", "N/A">>,
            <<"20", "22", "<0.3">> >>

VocabIdx == 1..3

FieldSeqs ==
    {q \in UNION {[1..k -> 1..Len(Header)] : k \in 1..MaxCols} :
        \A i \in 1..(Len(q) - 1) : q[i] < q[i + 1]}

MakeFile(q, r, g) ==
    [columns |-> [c \in 1..Len(q) |-> Header[q[c]]],
     data    |-> [c \in 1..Len(q) |-> [i \in 1..r |-> Vocab[q[c]][g[c][i]]]],
     nrows   |-> r]

\* The inputs of the documented scenarios.
Tables ==
    { [columns |-> <<"Temp (°C)">>, data |-> << <<"20", "N/A", "22">> >>, nrows |-> 3],
      [columns |-> <<"Sample_ID", "Result_Value">>,
       data |-> << <<"A1", "A1">>, <<"<0.3", "<0.3">> >>, nrows |-> 2],
      [columns |-> <<"Sample_ID", "Result_Value">>,
       data |-> << <<"A1", "A1">>, <<"20", "20">> >>, nrows |-> 2],
      [columns |-> <<"Test_Date">>, data |-> << <<"N/A">> >>, nrows |-> 1] }

\* ------------------------------------------------------------------ file names
\* A file name or path is the sequence of its characters.
LowerChar(ch) ==
    CASE ch = "A" -> "a"
      [] ch = "C" -> "c"
      [] ch = "S" -> "s"
      [] ch = "V" -> "v"
      [] OTHER    -> ch

lower(f) == [i \in 1..Len(f) |-> LowerChar(f[i])]

HasDot(f) == \E i \in 1..Len(f) : f[i] = "."

\* filename.rsplit(".", 1)[1], for a name that holds a dot.
ExtOf(f) ==
    LET last == CHOOSE i \in 1..Len(f) : f[i] = "." /\ \A j \in (i + 1)..Len(f) : f[j] # "."
    IN  SubSeq(f, last + 1, Len(f))

ALLOWED_EXTENSIONS == {<<"x", "l", "s", "x">>, <<"x", "l", "s", "m">>, <<"c", "s", "v">>}

allowed_file(f) == HasDot(f) /\ lower(ExtOf(f)) \in ALLOWED_EXTENSIONS

endswith(f, suffix) ==
    Len(f) >= Len(suffix) /\ SubSeq(f, Len(f) - Len(suffix) + 1, Len(f)) = suffix

\* werkzeug's secure_filename: characters outside ASCII letters, digits,
\* "_", "." and "-" are removed, then "." and "_" are stripped at both ends.
SafeChars == {"a", "b", "c", "l", "m", "s", "t", "v", "x", "A", "C", "S", "V", ".", "_", "-"}

RECURSIVE StripLeft(_)
StripLeft(f) == IF f # <<>> /\ Head(f) \in {".", "_"} THEN StripLeft(Tail(f)) ELSE f

RECURSIVE StripRight(_)
StripRight(f) ==
    IF f # <<>> /\ f[Len(f)] \in {".", "_"} THEN StripRight(SubSeq(f, 1, Len(f) - 1)) ELSE f

secure_filename(f) == StripRight(StripLeft(SelectSeq(f, LAMBDA ch : ch \in SafeChars)))

UPLOAD_FOLDER == <<"u", "p", "l", "o", "a", "d", "s">>

\* os.path.join(app.config["UPLOAD_FOLDER"], filename)
upload_path(name) == UPLOAD_FOLDER \o <<"/">> \o name

\* The loader clean_data picks for a path.
loader_for(path) == IF endswith(path, <<".", "c", "s", "v">>) THEN "read_csv" ELSE "read_excel"

\* The on-disk format a loader can parse.
parses(loader, fmt) == (loader = "read_csv" /\ fmt = "csv") \/ (loader = "read_excel" /\ fmt = "xlsx")

\* ------------------------------------------------------------------ whole run
coerce(f) == convert_numeric(convert_dates(rename(read_file(f))))

cleaned(f) == drop_duplicates(impute(coerce(f)))

\* The workbook ExcelWriter saves, in the order its parts reach the file.
workbook(f) ==
    << [sheet |-> "Cleaned Data", df |-> cleaned(f), report |-> <<>>],
       [sheet |-> "Metadata Report", df |-> EmptyFrame,
        report |-> make_metadata(f.columns, cleaned(f))] >>

\* ------------------------------------------------------------------ uploads
\* The names browsers send in the model, and for each accepted name the
\* table it carries, stored in the format its extension announces.
FileNames ==
    { <<>>,
      <<"a", ".", "c", "s", "v">>,
      <<"A", ".", "C", "S", "V">>,
      <<"ß", ".", "c", "s", "v">>,
      <<"b", ".", "x", "l", "s", "x">>,
      <<"m", ".", "x", "l", "s", "m">>,
      <<"t", ".", "t", "x", "t">>,
      <<"c", "s", "v">> }

NoTable == [columns |-> <<>>, data |-> <<>>, nrows |-> 0]

FormatOf(name) == IF lower(ExtOf(name)) = <<"c", "s", "v">> THEN "csv" ELSE "xlsx"

StagedNames == {secure_filename(f) : f \in {g \in FileNames : g # <<>> /\ allowed_file(g)}}

Requests == {"r1", "r2"}

NoRequest == [has_file |-> FALSE, filename |-> <<>>, fmt |-> "", table |-> NoTable]
NoStaged == [present |-> FALSE, fmt |-> "", table |-> NoTable]
NoOutput == [exists |-> FALSE, chunks |-> <<>>]
Hole == [sheet |-> "", df |-> EmptyFrame, report |-> <<>>]

\* A write of one chunk at a handle's own offset.
WriteAt(chunks, off, chunk) ==
    [i \in 1..(IF off > Len(chunks) THEN off ELSE Len(chunks)) |->
        IF i = off THEN chunk
        ELSE IF i <= Len(chunks) THEN chunks[i]
        ELSE Hole]

VARIABLES file, stage, df, original_headers, coerced, imputed, metadata,
          pc, req, path, loader, book, offset, response, uploads, output, served

cvars == <<file, stage, df, original_headers, coerced, imputed, metadata>>
wvars == <<pc, req, path, loader, book, offset, response, uploads, output, served>>
vars == <<cvars, wvars>>

InitWebVars ==
    /\ pc = [r \in Requests |-> "idle"]
    /\ req = [r \in Requests |-> NoRequest]
    /\ path = [r \in Requests |-> <<>>]
    /\ loader = [r \in Requests |-> "none"]
    /\ book = [r \in Requests |-> <<>>]
    /\ offset = [r \in Requests |-> 0]
    /\ response = [r \in Requests |-> ""]
    /\ uploads = [nm \in StagedNames |-> NoStaged]
    /\ output = NoOutput
    /\ served = [status |-> "none", chunks |-> <<>>]

Init ==
    /\ \/ file \in Tables
       \/ \E q \in FieldSeqs, r \in 1..MaxRows :
             \E g \in [1..Len(q) -> [1..r -> VocabIdx]] :
                /\ \A c \in 1..Len(q) : \A i \in 1..r : g[c][i] <= Len(Vocab[q[c]])
                /\ file = MakeFile(q, r, g)
    /\ stage = "load"
    /\ df = EmptyFrame
    /\ original_headers = <<>>
    /\ coerced = EmptyFrame
    /\ imputed = EmptyFrame
    /\ metadata = <<>>
    /\ InitWebVars

Load ==
    /\ stage = "load"
    /\ df' = read_file(file)
    /\ original_headers' = file.columns
    /\ stage' = "rename"
    /\ UNCHANGED <<file, coerced, imputed, metadata, wvars>>

Rename ==
    /\ stage = "rename"
    /\ df' = rename(df)
    /\ stage' = "dates"
    /\ UNCHANGED <<file, original_headers, coerced, imputed, metadata, wvars>>

ConvertDates ==
    /\ stage = "dates"
    /\ df' = convert_dates(df)
    /\ stage' = "numeric"
    /\ UNCHANGED <<file, original_headers, coerced, imputed, metadata, wvars>>

ConvertNumeric ==
    /\ stage = "numeric"
    /\ df' = convert_numeric(df)
    /\ coerced' = convert_numeric(df)
    /\ stage' = "impute"
    /\ UNCHANGED <<file, original_headers, imputed, metadata, wvars>>

Impute ==
    /\ stage = "impute"
    /\ ~ImputeRaises(df)
    /\ df' = impute(df)
    /\ imputed' = impute(df)
    /\ stage' = "dedup"
    /\ UNCHANGED <<file, original_headers, coerced, metadata, wvars>>

ImputeFail ==
    /\ stage = "impute"
    /\ ImputeRaises(df)
    /\ stage' = "raised"
    /\ UNCHANGED <<file, df, original_headers, coerced, imputed, metadata, wvars>>

DropDuplicates ==
    /\ stage = "dedup"
    /\ df' = drop_duplicates(df)
    /\ stage' = "report"
    /\ UNCHANGED <<file, original_headers, coerced, imputed, metadata, wvars>>

Report ==
    /\ stage = "report"
    /\ metadata' = make_metadata(original_headers, df)
    /\ stage' = "done"
    /\ UNCHANGED <<file, df, original_headers, coerced, imputed, wvars>>

Next ==
    \/ Load
    \/ Rename
    \/ ConvertDates
    \/ ConvertNumeric
    \/ Impute
    \/ ImputeFail
    \/ DropDuplicates
    \/ Report

Spec == Init /\ [][Next]_vars

\* ------------------------------------------------------------------ Flask shell
SUCCESS == "File uploaded and cleaned successfully! <a href='/download'>Download cleaned file</a>"
Rejections == {"No file part", "No selected file", "Invalid file format"}
\* What Flask answers when a view raises.
INTERNAL_ERROR == "500 Internal Server Error"

Reject(r, rq, msg) ==
    /\ req' = [req EXCEPT ![r] = rq]
    /\ response' = [response EXCEPT ![r] = msg]
    /\ pc' = [pc EXCEPT ![r] = "done"]
    /\ UNCHANGED <<path, loader, book, offset, uploads, output, served, cvars>>

Raise(r) ==
    /\ response' = [response EXCEPT ![r] = INTERNAL_ERROR]
    /\ pc' = [pc EXCEPT ![r] = "done"]

\* upload_file: '"file" not in request.files'
UploadNoFilePart(r) ==
    /\ pc[r] = "idle"
    /\ Reject(r, NoRequest, "No file part")

\* upload_file: 'file.filename == ""'
UploadNoSelectedFile(r) ==
    /\ pc[r] = "idle"
    /\ Reject(r, [NoRequest EXCEPT !.has_file = TRUE], "No selected file")

\* upload_file: allowed_file(file.filename) is false
UploadInvalidFormat(r) ==
    /\ pc[r] = "idle"
    /\ \E f \in FileNames :
          /\ f # <<>>
          /\ ~allowed_file(f)
          /\ Reject(r, [NoRequest EXCEPT !.has_file = TRUE, !.filename = f], "Invalid file format")

\* upload_file: the accepted file is saved under its sanitized name.
UploadSave(r) ==
    /\ pc[r] = "idle"
    /\ \E f \in FileNames, t \in Tables :
          /\ f # <<>>
          /\ allowed_file(f)
          /\ req' = [req EXCEPT ![r] =
                        [has_file |-> TRUE, filename |-> f, fmt |-> FormatOf(f), table |-> t]]
          /\ path' = [path EXCEPT ![r] = upload_path(secure_filename(f))]
          /\ uploads' = [uploads EXCEPT ![secure_filename(f)] =
                            [present |-> TRUE, fmt |-> FormatOf(f), table |-> t]]
    /\ pc' = [pc EXCEPT ![r] = "clean"]
    /\ UNCHANGED <<loader, book, offset, response, output, served, cvars>>

Staged(r) == uploads[SubSeq(path[r], Len(UPLOAD_FOLDER) + 2, Len(path[r]))]

\* clean_data: the chosen loader cannot parse the staged file.
CleanLoadFail(r) ==
    /\ pc[r] = "clean"
    /\ ~parses(loader_for(path[r]), Staged(r).fmt)
    /\ loader' = [loader EXCEPT ![r] = loader_for(path[r])]
    /\ Raise(r)
    /\ UNCHANGED <<req, path, book, offset, uploads, output, served, cvars>>

\* clean_data: mode()[0] raises during imputation.
CleanImputeFail(r) ==
    /\ pc[r] = "clean"
    /\ parses(loader_for(path[r]), Staged(r).fmt)
    /\ ImputeRaises(coerce(Staged(r).table))
    /\ loader' = [loader EXCEPT ![r] = loader_for(path[r])]
    /\ Raise(r)
    /\ UNCHANGED <<req, path, book, offset, uploads, output, served, cvars>>

\* clean_data from the read to the metadata frame, all in memory.
CleanCompute(r) ==
    /\ pc[r] = "clean"
    /\ parses(loader_for(path[r]), Staged(r).fmt)
    /\ ~ImputeRaises(coerce(Staged(r).table))
    /\ loader' = [loader EXCEPT ![r] = loader_for(path[r])]
    /\ book' = [book EXCEPT ![r] = workbook(Staged(r).table)]
    /\ pc' = [pc EXCEPT ![r] = "open"]
    /\ UNCHANGED <<req, path, offset, response, uploads, output, served, cvars>>

\* pd.ExcelWriter(output_file): the file is opened for writing and truncated.
OpenWriter(r) ==
    /\ pc[r] = "open"
    /\ output' = [exists |-> TRUE, chunks |-> <<>>]
    /\ offset' = [offset EXCEPT ![r] = 1]
    /\ pc' = [pc EXCEPT ![r] = "write"]
    /\ UNCHANGED <<req, path, loader, book, response, uploads, served, cvars>>

\* The open fails (permissions): nothing is touched.
OpenWriterFail(r) ==
    /\ pc[r] = "open"
    /\ Raise(r)
    /\ UNCHANGED <<req, path, loader, book, offset, uploads, output, served, cvars>>

\* The writer's save: the next part of the workbook goes to the file at this
\* handle's offset; after the last part the view returns the success page.
WriteChunk(r) ==
    /\ pc[r] = "write"
    /\ output' = [exists |-> TRUE,
                  chunks |-> WriteAt(output.chunks, offset[r], book[r][offset[r]])]
    /\ offset' = [offset EXCEPT ![r] = offset[r] + 1]
    /\ IF offset[r] = Len(book[r])
       THEN /\ response' = [response EXCEPT ![r] = SUCCESS]
            /\ pc' = [pc EXCEPT ![r] = "done"]
       ELSE UNCHANGED <<response, pc>>
    /\ UNCHANGED <<req, path, loader, book, uploads, served, cvars>>

\* A write fails (disk full): the file stays as written so far.
WriteFail(r) ==
    /\ pc[r] = "write"
    /\ Raise(r)
    /\ UNCHANGED <<req, path, loader, book, offset, uploads, output, served, cvars>>

\* download_file: send_file of the fixed output path.
Download ==
    /\ served' = IF output.exists
                 THEN [status |-> "ok", chunks |-> output.chunks]
                 ELSE [status |-> "error", chunks |-> <<>>]
    /\ UNCHANGED <<pc, req, path, loader, book, offset, response, uploads, output, cvars>>

InitWeb ==
    /\ file = NoTable
    /\ stage = "idle"
    /\ df = EmptyFrame
    /\ original_headers = <<>>
    /\ coerced = EmptyFrame
    /\ imputed = EmptyFrame
    /\ metadata = <<>>
    /\ InitWebVars

NextWeb ==
    \/ \E r \in Requests : UploadNoFilePart(r)
    \/ \E r \in Requests : UploadNoSelectedFile(r)
    \/ \E r \in Requests : UploadInvalidFormat(r)
    \/ \E r \in Requests : UploadSave(r)
    \/ \E r \in Requests : CleanLoadFail(r)
    \/ \E r \in Requests : CleanImputeFail(r)
    \/ \E r \in Requests : CleanCompute(r)
    \/ \E r \in Requests : OpenWriter(r)
    \/ \E r \in Requests : OpenWriterFail(r)
    \/ \E r \in Requests : WriteChunk(r)
    \/ \E r \in Requests : WriteFail(r)
    \/ Download

SpecWeb == InitWeb /\ [][NextWeb]_vars

\* ================================================================== claims
PastImputation == stage \in {"dedup", "report", "done"}

\* The cells of column c as loaded, with the sentinel tokens taken as missing.
LoadedCells(c) ==
    LET cells == read_file(file).data[c]
    IN  [r \in 1..Len(cells) |->
           IF cells[r].k = "str" /\ cells[r].s \in Sentinels THEN NaN ELSE cells[r]]

\* C1: the Missing Values and Unique Values of the Metadata Report are those
\* of each column after header mapping and type coercion, before imputation
\* and before deduplication.
C1_ReportCountsPreImputation ==
    stage = "done" =>
        \A c \in 1..Len(metadata) :
            /\ metadata[c].missing = nmissing(coerced.data[c])
            /\ metadata[c].unique = nunique(coerced.data[c])

\* C2: when a column has no non-missing value after type coercion, clean_data
\* raises: it never gets past imputation and never returns normally.
C2_EmptyColumnRaises ==
    PastImputation => \A c \in 1..NCols(coerced) : NonNull(coerced.data[c]) # {}

\* C3: the rows of the cleaned data are pairwise different, they are exactly
\* the first occurrences of the rows after imputation, in their input order,
\* and one duplicate pair costs exactly one row.
IsFirstOccurrence(r) == \A j \in 1..(r - 1) : Row(imputed, j) # Row(imputed, r)

DuplicatePairs ==
    {p \in (1..NRows(imputed)) \X (1..NRows(imputed)) :
        p[1] < p[2] /\ Row(imputed, p[1]) = Row(imputed, p[2])}

C3_Deduplication ==
    stage \in {"report", "done"} =>
        /\ \A i, j \in 1..NRows(df) : i # j => Row(df, i) # Row(df, j)
        /\ {df.index[i] : i \in 1..NRows(df)} = {r \in 1..NRows(imputed) : IsFirstOccurrence(r)}
        /\ \A i, j \in 1..NRows(df) : i < j => df.index[i] < df.index[j]
        /\ \A i \in 1..NRows(df) : Row(df, i) = Row(imputed, df.index[i])
        /\ Cardinality(DuplicatePairs) = 1 => NRows(df) = NRows(imputed) - 1

\* A run that dropped a later duplicate and kept a row after it.
C3_Witness ==
    /\ stage = "done"
    /\ Cardinality(DuplicatePairs) = 1
    /\ NRows(df) = 2
    /\ df.index = <<1, 3>>

\* C4: after imputation a numeric column has no missing cell, and every cell
\* that was missing holds the mean of the column's non-missing values.
C4_NumericImputedWithMean ==
    PastImputation =>
        \A c \in 1..NCols(coerced) :
            IsNumericDtype(coerced.dtypes[c]) =>
                /\ \A r \in 1..NRows(imputed) : ~isnull(imputed.data[c][r])
                /\ \A r \in 1..NRows(imputed) :
                      isnull(coerced.data[c][r]) =>
                          /\ imputed.data[c][r].k = "num"
                          /\ imputed.data[c][r].n * Cardinality(NonNull(coerced.data[c]))
                                = imputed.data[c][r].d * SumOver(coerced.data[c], NonNull(coerced.data[c]))

\* C5: after imputation a non-numeric column (text or date) has no missing
\* cell, and every cell that was missing holds the most frequent non-missing
\* value of the column, the first in row order among tied values.
IsTextColumn(c) ==
    \E r \in 1..Len(LoadedCells(c)) :
        LoadedCells(c)[r].k = "str" /\ LoadedCells(c)[r].s \notin NumberStrings

\* The values of a non-numeric column before imputation.
CategoricalCells(c) ==
    IF ~IsNumericDtype(coerced.dtypes[c]) THEN coerced.data[c] ELSE LoadedCells(c)

IsFirstMode(cells, v) ==
    /\ \E r \in NonNull(cells) : cells[r] = v
    /\ \A r \in NonNull(cells) : Count(cells, cells[r]) <= Count(cells, v)
    /\ \A r \in NonNull(cells) :
          Count(cells, cells[r]) = Count(cells, v) =>
              \E q \in 1..r : cells[q] = v

C5_CategoricalImputedWithFirstMode ==
    PastImputation =>
        \A c \in 1..NCols(coerced) :
            (~IsNumericDtype(coerced.dtypes[c]) \/ IsTextColumn(c)) =>
                /\ \A r \in 1..NRows(imputed) : ~isnull(imputed.data[c][r])
                /\ \A r \in 1..NRows(imputed) :
                      isnull(CategoricalCells(c)[r]) =>
                          IsFirstMode(CategoricalCells(c), imputed.data[c][r])

\* C6: a file with standard headers, no missing value and no duplicate row
\* comes out with the same headers, the same rows and the same values.
SameValue(x, c) ==
    \/ c.k = "str" /\ c.s = x
    \/ c.k = "num" /\ x \in NumberStrings /\ c.d = 1 /\ c.n = ParseNumber(x)
    \/ c.k = "date" /\ x \in DateStrings /\ c.n = ParseDate(x)

FileRow(r) == [c \in 1..Len(file.columns) |-> file.data[c][r]]

IsCleanFile ==
    /\ \A c \in 1..Len(file.columns) : header_mapping(file.columns[c]) = file.columns[c]
    /\ \A c \in 1..Len(file.columns) : \A r \in 1..file.nrows :
          file.data[c][r] \notin (DefaultNaValues \cup Sentinels)
    /\ \A i, j \in 1..file.nrows : i # j => FileRow(i) # FileRow(j)

C6_CleanFileUnchanged ==
    (IsCleanFile /\ stage = "done") =>
        /\ df.columns = file.columns
        /\ NRows(df) = file.nrows
        /\ \A c \in 1..NCols(df) : \A r \in 1..NRows(df) :
              SameValue(file.data[c][r], df.data[c][r])

\* C7: every finished upload answers either the success page, and then only
\* after its run wrote the whole workbook, or one of the rejection strings;
\* a request rejected by validation staged nothing and ran no loader, and a
\* failure inside clean_data is answered with a rejection string too.
C7_UploadOutcomes ==
    \A r \in Requests :
        pc[r] = "done" =>
            /\ response[r] \in Rejections \cup {SUCCESS}
            /\ response[r] = SUCCESS =>
                  book[r] # <<>> /\ offset[r] = Len(book[r]) + 1
            /\ (~req[r].has_file \/ req[r].filename = <<>> \/ ~allowed_file(req[r].filename)) =>
                  path[r] = <<>> /\ loader[r] = "none"

\* C8: a run of clean_data that fails, at whatever stage, has neither created
\* nor modified the output file (it never opened it for writing).
C8_FailedRunLeavesOutput ==
    \A r \in Requests : response[r] = INTERNAL_ERROR => offset[r] = 0

\* C9: once two concurrent uploads have both completed their runs, the output
\* file is the whole workbook of one of the two runs, never a mix of both.
C9_LastWriterWins ==
    (\A r \in Requests : response[r] = SUCCESS) =>
        \E r \in Requests : output.chunks = book[r]

\* C10: a file whose name allowed_file accepts with extension csv (in any
\* letter case) is read with read_csv, one accepted as xlsx or xlsm with
\* read_excel.
C10_LoaderMatchesExtension ==
    \A r \in Requests :
        loader[r] # "none" =>
            /\ lower(ExtOf(req[r].filename)) = <<"c", "s", "v">> => loader[r] = "read_csv"
            /\ lower(ExtOf(req[r].filename)) # <<"c", "s", "v">> => loader[r] = "read_excel"

====
